---------------------------- MODULE Spec2Model ----------------------------
(***************************************************************************)
(* Model of pylib/tools/genhooks.py: the hook code generator, the script   *)
(* that splices the generated code into hooks.py, and the behaviour of the *)
(* dispatch functions (run_<name>_hook / run_<name>_filter) it generates.  *)
(*                                                                         *)
(* A Python str is a text: a tuple of pieces whose concatenation is the     *)
(* str.  A piece is a character, the marker, or a literal part of one of   *)
(* the templates of lines 61-115.  The str values of a declaration are     *)
(* tuples of characters.  A character is a one-character string; NUL, the  *)
(* grave accent and the characters above U+007F, which a module cannot     *)
(* hold, are written by code point, as "U+0085".  Optional[str] is <<>>    *)
(* for None and <<s>> for the str s.                                       *)
(***************************************************************************)
EXTENDS Naturals, Sequences, FiniteSets, TLC

VARIABLES
    \* ---- the generator script (module level of genhooks.py)
    declared,     \* the hooks list literal, as written (lines 121-125)
    hooks,        \* the module-level list hooks
    gpc,          \* position of the script
    gi,           \* position of the running "for hook in hooks" loop
    code,         \* the module-level str code
    orig,         \* the module-level str orig
    new,          \* the module-level str new
    file,         \* content of hooks.py on disk
    gerr,         \* the exception that ended the script, or <<>>
    printed,      \* number of "Updated hooks.py" lines printed by this run
    runs,         \* number of times the script has been started
    history,      \* content of hooks.py when each run of the script started
    \* ---- one generated dispatch function and its registration list
    decl,         \* the Hook the function was generated from
    reg,          \* the registration list {full_name}
    dpc,          \* position inside run_{full_name}
    it,           \* index of the list iterator of the for loop
    cur,          \* the loop variable (hook / filter)
    args,         \* current bindings of the parameters
    args0,        \* the values the caller passed
    reg0,         \* the registration list when the call started
    exc,          \* the exception being handled, or <<>>
    calls,        \* log of callback invocations of this call
    legacy,       \* log of runHook/runFilter invocations of this call
    outcome,      \* how the call ended: <<>>, <<"return", v>> or <<"raise", e>>
    ncalls        \* number of dispatch calls made so far

gvars == <<declared, hooks, gpc, gi, code, orig, new, file, gerr, printed,
           runs, history>>
dvars == <<decl, reg, dpc, it, cur, args, args0, reg0, exc, calls, legacy,
           outcome, ncalls>>
vars == <<gvars, dvars>>

\* ------------------------------------------------------------------------
\* Bounds

MaxHooks == 2
MaxFileLen == 5
MaxRuns == 2
MaxReg == 2
MaxCalls == 2

\* ------------------------------------------------------------------------
\* Python str helpers

None == <<>>
Some(s) == <<s>>

\* chr(k) for k in 0..255 is Latin1[k + 1]
Latin1 ==
    <<
      "U+0000", "", "", "", "", "", "", "",
      "", "\t", "\n", "", "\f", "\r", "", "",
      "", "", "", "", "", "", "", "",
      "", "", "", "", "", "", "", "",
      " ", "!", "\"", "#", "$", "%", "&", "'",
      "(", ")", "*", "+", ",", "-", ".", "/",
      "0", "1", "2", "3", "4", "5", "6", "7",
      "8", "9", ":", ";", "<", "=", ">", "?",
      "@", "A", "B", "C", "D", "E", "F", "G",
      "H", "I", "J", "K", "L", "M", "N", "O",
      "P", "Q", "R", "S", "T", "U", "V", "W",
      "X", "Y", "Z", "[", "\\", "]", "^", "_",
      "U+0060", "a", "b", "c", "d", "e", "f", "g",
      "h", "i", "j", "k", "l", "m", "n", "o",
      "p", "q", "r", "s", "t", "u", "v", "w",
      "x", "y", "z", "{", "|", "}", "~", "",
      "U+0080", "U+0081", "U+0082", "U+0083", "U+0084", "U+0085", "U+0086", "U+0087",
      "U+0088", "U+0089", "U+008A", "U+008B", "U+008C", "U+008D", "U+008E", "U+008F",
      "U+0090", "U+0091", "U+0092", "U+0093", "U+0094", "U+0095", "U+0096", "U+0097",
      "U+0098", "U+0099", "U+009A", "U+009B", "U+009C", "U+009D", "U+009E", "U+009F",
      "U+00A0", "U+00A1", "U+00A2", "U+00A3", "U+00A4", "U+00A5", "U+00A6", "U+00A7",
      "U+00A8", "U+00A9", "U+00AA", "U+00AB", "U+00AC", "U+00AD", "U+00AE", "U+00AF",
      "U+00B0", "U+00B1", "U+00B2", "U+00B3", "U+00B4", "U+00B5", "U+00B6", "U+00B7",
      "U+00B8", "U+00B9", "U+00BA", "U+00BB", "U+00BC", "U+00BD", "U+00BE", "U+00BF",
      "U+00C0", "U+00C1", "U+00C2", "U+00C3", "U+00C4", "U+00C5", "U+00C6", "U+00C7",
      "U+00C8", "U+00C9", "U+00CA", "U+00CB", "U+00CC", "U+00CD", "U+00CE", "U+00CF",
      "U+00D0", "U+00D1", "U+00D2", "U+00D3", "U+00D4", "U+00D5", "U+00D6", "U+00D7",
      "U+00D8", "U+00D9", "U+00DA", "U+00DB", "U+00DC", "U+00DD", "U+00DE", "U+00DF",
      "U+00E0", "U+00E1", "U+00E2", "U+00E3", "U+00E4", "U+00E5", "U+00E6", "U+00E7",
      "U+00E8", "U+00E9", "U+00EA", "U+00EB", "U+00EC", "U+00ED", "U+00EE", "U+00EF",
      "U+00F0", "U+00F1", "U+00F2", "U+00F3", "U+00F4", "U+00F5", "U+00F6", "U+00F7",
      "U+00F8", "U+00F9", "U+00FA", "U+00FB", "U+00FC", "U+00FD", "U+00FE", "U+00FF"
    >>

\* the white space above U+00FF, each with its code point
WideSpace ==
    <<
      <<"U+1680", 5760>>, <<"U+2000", 8192>>, <<"U+2001", 8193>>, <<"U+2002", 8194>>,
      <<"U+2003", 8195>>, <<"U+2004", 8196>>, <<"U+2005", 8197>>, <<"U+2006", 8198>>,
      <<"U+2007", 8199>>, <<"U+2008", 8200>>, <<"U+2009", 8201>>, <<"U+200A", 8202>>,
      <<"U+2028", 8232>>, <<"U+2029", 8233>>, <<"U+202F", 8239>>, <<"U+205F", 8287>>,
      <<"U+3000", 12288>>
    >>

\* the characters: every other piece of text is a template literal, the
\* marker, or the reference to the whole match in a parsed replacement
Chars ==
    {Latin1[k] : k \in 1..Len(Latin1)} \cup {WideSpace[k][1] : k \in 1..Len(WideSpace)}

IsChar(c) == c \in Chars

\* ord() of a character
ord(c) ==
    IF \E k \in 1..Len(Latin1) : Latin1[k] = c
    THEN (CHOOSE k \in 1..Len(Latin1) : Latin1[k] = c) - 1
    ELSE WideSpace[CHOOSE k \in 1..Len(WideSpace) : WideSpace[k][1] = c][2]

\* str < str: lexicographic by code point, a proper prefix first
RECURSIVE StrLess(_, _)
StrLess(s, t) ==
    IF t = <<>> THEN FALSE
    ELSE IF s = <<>> THEN TRUE
    ELSE IF ord(Head(s)) # ord(Head(t)) THEN ord(Head(s)) < ord(Head(t))
    ELSE StrLess(Tail(s), Tail(t))

\* the str a text stands for (a character written U+hhhh stays so written)
RECURSIVE Str(_)
Str(s) == IF s = <<>> THEN "" ELSE Head(s) \o Str(Tail(s))

\* sep.join(parts): parts is a tuple of texts, sep a text
RECURSIVE join(_, _)
join(sep, parts) ==
    IF parts = <<>> THEN <<>>
    ELSE IF Len(parts) = 1 THEN parts[1]
    ELSE parts[1] \o sep \o join(sep, Tail(parts))

\* str.split(sep) for a one-character separator
RECURSIVE split(_, _)
split(s, sep) ==
    IF \A k \in 1..Len(s) : s[k] # sep THEN <<s>>
    ELSE LET k == CHOOSE k \in 1..Len(s) :
                      s[k] = sep /\ \A j \in 1..(k - 1) : s[j] # sep
         IN  <<SubSeq(s, 1, k - 1)>> \o split(SubSeq(s, k + 1, Len(s)), sep)

\* str.isspace() of one character: the white space str.strip() removes
IsSpace(c) ==
    \/ c \in {"\t", "\n", Latin1[12], "\f", "\r", Latin1[29], Latin1[30],
              Latin1[31], Latin1[32], " ", "U+0085", "U+00A0"}
    \/ \E k \in 1..Len(WideSpace) : WideSpace[k][1] = c

\* str.strip()
RECURSIVE lstrip(_)
lstrip(s) == IF s # <<>> /\ IsSpace(Head(s)) THEN lstrip(Tail(s)) ELSE s
RECURSIVE rstrip(_)
rstrip(s) ==
    IF s # <<>> /\ IsSpace(s[Len(s)]) THEN rstrip(SubSeq(s, 1, Len(s) - 1))
    ELSE s
strip(s) == rstrip(lstrip(s))

\* results of an operation that may raise
Ok(v) == [ok |-> TRUE, val |-> v]
Raise(e) == [ok |-> FALSE, err |-> e]

\* ------------------------------------------------------------------------
\* class Hook

Hook(n, a, r, l) == [name |-> n, cb_args |-> a, return_type |-> r, legacy_hook |-> l]

\* mutant of parse_args: a segment that is not one name and one type is
\* skipped like an empty one
RECURSIVE parse_args_Lenient(_)
parse_args_Lenient(segs) ==
    IF segs = <<>> THEN Ok(<<>>)
    ELSE LET parts == split(Head(segs), ":")
             rest == parse_args_Lenient(Tail(segs))
         IN  IF Len(parts) # 2 THEN rest
             ELSE Ok(<<[name |-> parts[1], type |-> parts[2]]>> \o rest.val)

\* the loop of callable() and arg_names(): the (name, type) pairs of the
\* non-empty segments, or ValueError from the tuple unpacking
RECURSIVE parse_args(_)
parse_args(segs) ==
    IF segs = <<>> THEN Ok(<<>>)
    ELSE IF Head(segs) = <<>> THEN parse_args(Tail(segs))
    ELSE LET parts == split(Head(segs), ":")
         IN  IF Len(parts) # 2 THEN Raise("ValueError")
             ELSE LET rest == parse_args(Tail(segs))
                  IN  IF ~rest.ok THEN rest
                      ELSE Ok(<<[name |-> parts[1], type |-> parts[2]]>> \o rest.val)

kind(h) == IF h.return_type # None THEN "filter" ELSE "hook"

full_name(h) == h.name \o <<"_" \o kind(h)>>

\* the test "if self.legacy_hook:", and the left operand of "or"
truthy(x) == x # None /\ x[1] # <<>>

\* x or 'None' on an Optional[str]
or_None(x) == IF truthy(x) THEN x[1] ELSE <<"None">>

\* {x} in an f-string, x an Optional[str]: str(None) is "None"
format(x) == IF x = None THEN <<"None">> ELSE x[1]

callable(h) ==
    LET p == parse_args(split(h.cb_args, ","))
    IN  IF ~p.ok THEN p
        ELSE LET types == [k \in 1..Len(p.val) |-> strip(p.val[k].type)]
             IN  Ok(<<"Callable[[">> \o join(<<", ">>, types) \o <<"], ">>
                    \o or_None(h.return_type) \o <<"]">>)

arg_names(h) ==
    LET p == parse_args(split(h.cb_args, ","))
    IN  IF ~p.ok THEN p
        ELSE Ok([k \in 1..Len(p.val) |-> strip(p.val[k].name)])

list_code(h) ==
    LET c == callable(h)
    IN  IF ~c.ok THEN c
        ELSE Ok(full_name(h) \o <<": List[">> \o c.val \o <<"] = []\n">>)

hook_fire_code(h) ==
    LET n == arg_names(h)
    IN  IF ~n.ok THEN n
        ELSE LET out == <<"def run_">> \o full_name(h) \o <<"(">> \o h.cb_args
                            \o <<") -> None:\n">>
                        \o <<"    for hook in ">> \o full_name(h) \o <<":\n">>
                        \o <<"        try:\n">>
                        \o <<"            hook(">> \o join(<<", ">>, n.val) \o <<")\n">>
                        \o <<"        except:\n">>
                        \o <<"            # if the hook fails, remove it\n">>
                        \o <<"            ">> \o full_name(h) \o <<".remove(hook)\n">>
                        \o <<"            raise\n">>
                 leg == IF truthy(h.legacy_hook)
                        THEN <<"    # legacy support\n">>
                             \o <<"    runHook(">>
                             \o join(<<", ">>,
                                     <<<<"\"">> \o h.legacy_hook[1] \o <<"\"">>>> \o n.val)
                             \o <<")\n">>
                        ELSE <<>>
             IN  Ok(out \o leg \o <<"\n\n">>)

filter_fire_code(h) ==
    LET n == arg_names(h)
    IN  IF ~n.ok THEN n
        ELSE IF n.val = <<>> THEN Raise("IndexError")
        ELSE LET out == <<"def run_">> \o full_name(h) \o <<"(">> \o h.cb_args
                            \o <<") -> ">> \o format(h.return_type) \o <<":\n">>
                        \o <<"    for filter in ">> \o full_name(h) \o <<":\n">>
                        \o <<"        try:\n">>
                        \o <<"            ">> \o n.val[1] \o <<" = filter(">>
                            \o join(<<", ">>, n.val) \o <<")\n">>
                        \o <<"        except:\n">>
                        \o <<"            # if the hook fails, remove it\n">>
                        \o <<"            ">> \o full_name(h) \o <<".remove(filter)\n">>
                        \o <<"            raise\n">>
                 leg == IF truthy(h.legacy_hook)
                        THEN <<"    # legacy support\n">>
                             \o <<"    runFilter(">>
                             \o join(<<", ">>,
                                     <<<<"\"">> \o h.legacy_hook[1] \o <<"\"">>>> \o n.val)
                             \o <<")\n">>
                        ELSE <<>>
                 ret == <<"    return ">> \o n.val[1] \o <<"\n">>
             IN  Ok(out \o leg \o ret \o <<"\n\n">>)

fire_code(h) ==
    IF h.return_type # None THEN filter_fire_code(h) ELSE hook_fire_code(h)

\* ------------------------------------------------------------------------
\* Declarations: the list of lines 121-125 and further Hook(...) values

\* line 122
leech ==
    Hook(<<"l", "e", "e", "c", "h">>,
         <<"c", "a", "r", "d", ":", " ", "C", "a", "r", "d">>,
         None, Some(<<"l", "e", "e", "c", "h">>))

\* line 123
odue_invalid ==
    Hook(<<"o", "d", "u", "e", "_", "i", "n", "v", "a", "l", "i", "d">>,
         <<>>,
         None, None)

\* line 124
mod_schema ==
    Hook(<<"m", "o", "d", "_", "s", "c", "h", "e", "m", "a">>,
         <<"p", "r", "o", "c", "e", "e", "d", ":", " ", "b", "o", "o", "l">>,
         Some(<<"b", "o", "o", "l">>), None)

\* a filter of two arguments with a legacy alias
two_arg_filter ==
    Hook(<<"M", "o", "d">>,
         <<"a", ":", " ", "T", ",", "b", " ", ":", "U", ",">>,
         Some(<<"T">>), Some(<<"m", "o", "d">>))

\* a second declaration named leech
same_name ==
    Hook(<<"l", "e", "e", "c", "h">>,
         <<>>,
         None, None)

\* a hook whose legacy_hook is the empty str
empty_alias ==
    Hook(<<"m", "o", "d">>,
         <<"a", ":", "T">>,
         None, Some(<<>>))

\* a segment with no colon
no_colon ==
    Hook(<<"m">>,
         <<"a", ":", " ", "T", ",", " ">>,
         None, Some(<<"m">>))

\* a segment with two colons
two_colons ==
    Hook(<<"n">>,
         <<"a", ":", "T", ":", "U">>,
         Some(<<"T">>), None)

\* a filter with no arguments
no_arg_filter ==
    Hook(<<"z">>,
         <<",">>,
         Some(<<"b", "o", "o", "l">>), None)

\* a name and a type set off by a vertical tab (U+000B) and a unit
\* separator (U+001F)
odd_space ==
    Hook(<<"v">>,
         <<"a", Latin1[12], ":", Latin1[32], "T">>,
         None, None)

\* a legacy alias that holds a backslash and n
escaped_newline ==
    Hook(<<"e">>,
         <<>>,
         None, Some(<<"a", "\\", "n", "b">>))

\* a legacy alias that holds a backslash and d
bad_escape ==
    Hook(<<"d">>,
         <<>>,
         None, Some(<<"\\", "d">>))

\* a legacy alias that holds a backslash and g<0>
whole_match ==
    Hook(<<"g">>,
         <<>>,
         None, Some(<<"\\", "g", "<", "0", ">">>))

HookPool ==
    {leech, odue_invalid, mod_schema, two_arg_filter, same_name,
     empty_alias, no_colon, two_colons, no_arg_filter, odd_space,
     escaped_newline, bad_escape, whole_match}

\* hooks.sort(key=attrgetter("name")): a stable sort, ascending by name
RECURSIVE insert_by_name(_, _)
insert_by_name(h, s) ==
    IF s = <<>> THEN <<h>>
    ELSE IF StrLess(h.name, s[Len(s)].name)
         THEN insert_by_name(h, SubSeq(s, 1, Len(s) - 1)) \o <<s[Len(s)]>>
         ELSE s \o <<h>>

\* mutant of sort_by_name: the list is left in the order it was written
sort_by_name_Unsorted(l) == l

RECURSIVE sort_by_name(_)
sort_by_name(l) ==
    IF l = <<>> THEN <<>>
    ELSE insert_by_name(l[Len(l)], sort_by_name(SubSeq(l, 1, Len(l) - 1)))

\* ------------------------------------------------------------------------
\* hooks.py as text

Marker == "# @@AUTOGEN@@"

MarkerChars ==
    <<"#", " ", "@", "@", "A", "U", "T", "O", "G", "E", "N", "@", "@">>

\* the text s with every marker that is spelled out in characters as the
\* one piece Marker
RECURSIVE lex(_)
lex(s) ==
    LET n == Len(MarkerChars)
        I == {i \in 1..(Len(s) - n + 1) :
                 s[i] = MarkerChars[1] /\ SubSeq(s, i, i + n - 1) = MarkerChars}
    IN  IF I = {} THEN s
        ELSE LET i == CHOOSE i \in I : \A k \in I : i <= k
             IN  SubSeq(s, 1, i - 1) \o <<Marker>> \o lex(SubSeq(s, i + n, Len(s)))

\* open(hooks_py).read(): text mode with universal newlines, "\r\n" and a
\* lone "\r" are read as "\n"
RECURSIVE read(_)
read(f) ==
    LET R == {k \in 1..Len(f) : f[k] = "\r"}
    IN  IF R = {} THEN f
        ELSE LET r == CHOOSE r \in R : \A k \in R : r <= k
                 n == IF r < Len(f) /\ f[r + 1] = "\n" THEN r + 2 ELSE r + 1
             IN  SubSeq(f, 1, r - 1) \o <<"\n">> \o read(SubSeq(f, n, Len(f)))

\* the replacement string of line 142
replacement(c) == <<Marker, "\n", "\n">> \o c \o <<Marker, "\n">>

\* re.sub reads its replacement as a template (parse_template of the re
\* module): a backslash starts an escape

AsciiLetters == {Latin1[k] : k \in (66..91) \cup (98..123)}
Digits == <<"0", "1", "2", "3", "4", "5", "6", "7", "8", "9">>
IsDigit(c) == \E k \in 1..Len(Digits) : Digits[k] = c
IsOctDigit(c) == \E k \in 1..8 : Digits[k] = c
DigitVal(c) == (CHOOSE k \in 1..Len(Digits) : Digits[k] = c) - 1

\* the escapes of a letter: \a \b \f \n \r \t \v, and \\
IsEscape(c) == c \in {"a", "b", "f", "n", "r", "t", "v", "\\"}
Escape(c) ==
    IF c = "a" THEN Latin1[8]
    ELSE IF c = "b" THEN Latin1[9]
    ELSE IF c = "f" THEN "\f"
    ELSE IF c = "n" THEN "\n"
    ELSE IF c = "r" THEN "\r"
    ELSE IF c = "t" THEN "\t"
    ELSE IF c = "v" THEN Latin1[12]
    ELSE "\\"

\* the piece that stands for the whole match in a parsed template
Group0 == "\\g<0>"

\* the characters up to U+00FF that may start an identifier
IdStart ==
    AsciiLetters \cup {"_"}
        \cup {Latin1[k + 1] : k \in {170, 181, 186} \cup (192..214)
                                      \cup (216..246) \cup (248..255)}

\* str.isidentifier() of a group name
IsIdentifier(n) ==
    /\ n # <<>>
    /\ n[1] \in IdStart
    /\ \A k \in 1..Len(n) : n[k] \in IdStart \cup {"U+00B7"} \/ IsDigit(n[k])

\* the white space int() skips around a number: the white space of
\* str.strip() but for the separators U+001C to U+001F
int_strip(n) ==
    LET W == {c \in Chars : IsSpace(c)} \ {Latin1[k] : k \in 29..32}
        K == {k \in 1..Len(n) : n[k] \notin W}
    IN  IF K = {} THEN <<>>
        ELSE SubSeq(n, CHOOSE k \in K : \A j \in K : k <= j,
                       CHOOSE k \in K : \A j \in K : k >= j)

\* int(name) succeeds and is 0: white space around, a sign, and zeros with
\* single underscores between them
IsZero(n) ==
    LET s == int_strip(n)
        u == IF s # <<>> /\ s[1] \in {"+", "-"} THEN Tail(s) ELSE s
    IN  /\ u # <<>>
        /\ u[1] = "0" /\ u[Len(u)] = "0"
        /\ \A k \in 1..Len(u) : u[k] \in {"0", "_"}
        /\ \A k \in 1..(Len(u) - 1) : ~(u[k] = "_" /\ u[k + 1] = "_")

\* the group reference that follows "\g" at the head of t: the number of
\* pieces it takes, or the exception.  The pattern of line 142 has no
\* group, so only a name whose value is 0 refers to one.
group_ref(t) ==
    IF t = <<>> \/ t[1] # "<" THEN Raise("error")
    ELSE LET E == {k \in 2..Len(t) : t[k] = ">"}
         IN  IF E = {} THEN Raise("error")
             ELSE LET e == CHOOSE k \in E : \A j \in E : k <= j
                      name == SubSeq(t, 2, e - 1)
                  IN  IF name = <<>> THEN Raise("error")
                      ELSE IF \E k \in 1..Len(name) : ~IsChar(name[k])
                           THEN Raise("error")
                      ELSE IF IsIdentifier(name) THEN Raise("IndexError")
                      ELSE IF IsZero(name) THEN Ok(e)
                      ELSE Raise("error")

\* parse_template(repl): the pieces of the replacement with every escape
\* resolved, or the exception of the first escape that is not one
RECURSIVE parse_template(_)
parse_template(repl) ==
    LET B == {k \in 1..Len(repl) : repl[k] = "\\"}
    IN  IF B = {} THEN Ok(repl)
        ELSE
        LET b == CHOOSE b \in B : \A k \in B : b <= k
            t == SubSeq(repl, b, Len(repl))
            cons(x, n) ==
                LET rest == parse_template(SubSeq(t, n + 1, Len(t)))
                IN  IF rest.ok THEN Ok(SubSeq(repl, 1, b - 1) \o x \o rest.val)
                    ELSE rest
        IN  IF Len(t) = 1 THEN Raise("error")
            ELSE IF t[2] = "g"
                 THEN LET g == group_ref(SubSeq(t, 3, Len(t)))
                      IN  IF g.ok THEN cons(<<Group0>>, 2 + g.val) ELSE g
            ELSE IF t[2] = "0"
                 THEN IF Len(t) >= 3 /\ IsOctDigit(t[3])
                      THEN IF Len(t) >= 4 /\ IsOctDigit(t[4])
                           THEN cons(<<Latin1[1 + 8 * DigitVal(t[3])
                                                + DigitVal(t[4])]>>, 4)
                           ELSE cons(<<Latin1[1 + DigitVal(t[3])]>>, 3)
                      ELSE cons(<<Latin1[1]>>, 2)
            ELSE IF IsDigit(t[2])
                 THEN IF /\ Len(t) >= 4
                         /\ IsOctDigit(t[2]) /\ IsOctDigit(t[3]) /\ IsOctDigit(t[4])
                      THEN LET c == 64 * DigitVal(t[2]) + 8 * DigitVal(t[3])
                                        + DigitVal(t[4])
                           IN  IF c > 255 THEN Raise("error")
                               ELSE cons(<<Latin1[1 + c]>>, 4)
                      ELSE Raise("error")
            ELSE IF IsEscape(t[2]) THEN cons(<<Escape(t[2])>>, 2)
            ELSE IF t[2] \in AsciiLetters THEN Raise("error")
            ELSE cons(<<t[1], t[2]>>, 2)

\* expand_template: the parsed template with the whole match m for every
\* reference to it
RECURSIVE expand_template(_, _)
expand_template(t, m) ==
    LET G == {k \in 1..Len(t) : t[k] = Group0}
    IN  IF G = {} THEN t
        ELSE LET g == CHOOSE g \in G : \A k \in G : g <= k
             IN  SubSeq(t, 1, g - 1) \o m
                     \o expand_template(SubSeq(t, g + 1, Len(t)), m)

\* end of the match of "(?s)# @@AUTOGEN@@.*?# @@AUTOGEN@@\n" that starts at
\* i, or 0: the lazy .*? stops at the nearest later marker followed by "\n"
match_end(s, i) ==
    IF s[i] # Marker THEN 0
    ELSE LET J == {j \in (i + 1)..(Len(s) - 1) : s[j] = Marker /\ s[j + 1] = "\n"}
         IN  IF J = {} THEN 0
             ELSE 1 + (CHOOSE j \in J : \A k \in J : j <= k)

\* every non-overlapping match in s, leftmost first, replaced by the
\* expansion of the parsed template t
RECURSIVE sub_all(_, _)
sub_all(s, t) ==
    LET I == {i \in 1..Len(s) : match_end(s, i) # 0}
    IN  IF I = {} THEN s
        ELSE LET i == CHOOSE i \in I : \A k \in I : i <= k
                 e == match_end(s, i)
             IN  SubSeq(s, 1, i - 1) \o expand_template(t, SubSeq(s, i, e))
                     \o sub_all(SubSeq(s, e + 1, Len(s)), t)

\* re.sub(pattern, repl, s): the template is parsed first, match or no
\* match, and its exception is the exception of re.sub
re_sub(s, repl) ==
    LET t == parse_template(repl)
    IN  IF t.ok THEN Ok(sub_all(lex(s), t.val)) ELSE t

\* new.encode("utf8") written in binary mode: the text as it is
encode(s) == s

\* the list literal of lines 121-125
hooks_literal == <<leech, odue_invalid, mod_schema>>

SeqsUpTo(S, n) == UNION {[1..k -> S] : k \in 0..n}

HookLists == SeqsUpTo(HookPool, MaxHooks)

Tokens == {Marker, "\n", "\r", "x"}

Files == SeqsUpTo(Tokens, MaxFileLen)

\* "x\n# @@AUTOGEN@@\nx\n# @@AUTOGEN@@\nx\n"
sample_file == <<"x", "\n", Marker, "\n", "x", "\n", Marker, "\n", "x", "\n">>

\* two marked regions: "# @@AUTOGEN@@\nx\n# @@AUTOGEN@@\nx\n" twice
two_region_file ==
    <<Marker, "\n", "x", "\n", Marker, "\n", "x", "\n",
      Marker, "\n", "x", "\n", Marker, "\n", "x", "\n">>

\* ------------------------------------------------------------------------
\* The script: module level of genhooks.py, lines 121-146

GenIdle ==
    /\ declared = <<>> /\ hooks = <<>> /\ gpc = "off" /\ gi = 0
    /\ code = <<>> /\ orig = <<>> /\ new = <<>> /\ file = <<>> /\ gerr = None
    /\ printed = 0 /\ runs = 0 /\ history = <<>>

DispatchIdle ==
    /\ decl = odue_invalid /\ reg = <<>> /\ dpc = "off" /\ it = 0
    /\ cur = None /\ args = <<>> /\ args0 = <<>> /\ reg0 = <<>> /\ exc = None
    /\ calls = <<>> /\ legacy = <<>> /\ outcome = <<>> /\ ncalls = 0

\* The declarations and the content of hooks.py are the inputs: every list
\* of declarations with the sample file, and every file with the list of
\* lines 121-125, with a list that generation fails on and with a list
\* whose blob is not a template re.sub accepts.
InitGenerate ==
    /\ \/ declared \in HookLists /\ file = sample_file
       \/ declared \in {hooks_literal, <<no_colon>>, <<bad_escape>>}
             /\ file \in Files \cup {two_region_file}
    /\ hooks = declared
    /\ gpc = "sort" /\ gi = 0
    /\ code = <<>> /\ orig = <<>> /\ new = <<>> /\ gerr = None
    /\ printed = 0 /\ runs = 1 /\ history = <<file>>
    /\ DispatchIdle

\* an uncaught exception ends the script
Abort(e) ==
    /\ gerr' = Some(e)
    /\ gpc' = "aborted"

\* line 127
Sort ==
    /\ gpc = "sort"
    /\ hooks' = sort_by_name(hooks)
    /\ gpc' = "lists"
    /\ gi' = 1
    /\ code' = <<>>
    /\ UNCHANGED <<declared, orig, new, file, gerr, printed, runs, history, dvars>>

\* lines 135-136, one iteration
ListCode ==
    /\ gpc = "lists"
    /\ gi <= Len(hooks)
    /\ LET r == list_code(hooks[gi])
       IN  IF r.ok
           THEN code' = code \o r.val /\ gi' = gi + 1 /\ UNCHANGED <<gpc, gerr>>
           ELSE Abort(r.err) /\ UNCHANGED <<code, gi>>
    /\ UNCHANGED <<declared, hooks, orig, new, file, printed, runs, history, dvars>>

\* line 137
Separator ==
    /\ gpc = "lists"
    /\ gi > Len(hooks)
    /\ code' = code \o <<"\n\n">>
    /\ gpc' = "fires"
    /\ gi' = 1
    /\ UNCHANGED <<declared, hooks, orig, new, file, gerr, printed, runs, history, dvars>>

\* lines 138-139, one iteration
FireCode ==
    /\ gpc = "fires"
    /\ gi <= Len(hooks)
    /\ LET r == fire_code(hooks[gi])
       IN  IF r.ok
           THEN code' = code \o r.val /\ gi' = gi + 1 /\ UNCHANGED <<gpc, gerr>>
           ELSE Abort(r.err) /\ UNCHANGED <<code, gi>>
    /\ UNCHANGED <<declared, hooks, orig, new, file, printed, runs, history, dvars>>

\* line 141
ReadFile ==
    /\ gpc = "fires"
    /\ gi > Len(hooks)
    /\ orig' = read(file)
    /\ gpc' = "sub"
    /\ UNCHANGED <<declared, hooks, gi, code, new, file, gerr, printed, runs, history, dvars>>

\* line 142: new is bound, or the exception of re.sub ends the script
Substitute ==
    /\ gpc = "sub"
    /\ LET r == re_sub(orig, replacement(code))
       IN  IF r.ok
           THEN new' = r.val /\ gpc' = "write" /\ UNCHANGED gerr
           ELSE Abort(r.err) /\ UNCHANGED new
    /\ UNCHANGED <<declared, hooks, gi, code, orig, file, printed, runs, history, dvars>>

\* line 144
WriteFile ==
    /\ gpc = "write"
    /\ file' = encode(new)
    /\ gpc' = "print"
    /\ UNCHANGED <<declared, hooks, gi, code, orig, new, gerr, printed, runs, history, dvars>>

\* line 146
PrintUpdated ==
    /\ gpc = "print"
    /\ printed' = printed + 1
    /\ gpc' = "done"
    /\ UNCHANGED <<declared, hooks, gi, code, orig, new, file, gerr, runs, history, dvars>>

\* the script is run again on the hooks.py the previous run left
RunAgain ==
    /\ gpc \in {"done", "aborted"}
    /\ runs < MaxRuns
    /\ runs' = runs + 1
    /\ history' = Append(history, file)
    /\ hooks' = declared
    /\ gpc' = "sort" /\ gi' = 0
    /\ code' = <<>> /\ orig' = <<>> /\ new' = <<>> /\ gerr' = None
    /\ printed' = 0
    /\ UNCHANGED <<declared, file, dvars>>

NextGenerate ==
    \/ Sort
    \/ ListCode
    \/ Separator
    \/ FireCode
    \/ ReadFile
    \/ Substitute
    \/ WriteFile
    \/ PrintUpdated
    \/ RunAgain

SpecGenerate == InitGenerate /\ [][NextGenerate]_vars

\* ------------------------------------------------------------------------
\* The generated dispatch functions: the code that hook_fire_code (lines
\* 76-91) and filter_fire_code (lines 96-115) emit, run on a registration
\* list.  A callback is opaque: while it runs it may register or unregister
\* a callback of the list it is called from, and it then returns some value
\* or raises some exception.  Parameter names are taken to differ from the
\* loop variable and from the list's name.

Callbacks == {"f", "g"}
Values == {"u", "v"}
Errors == {"E1", "E2"}

\* the blanks that strip removes and that Python accepts between the tokens
\* of the parameter list of lines 77 and 97 (inside the parentheses a line
\* end is a blank too)
SourceBlank == {" ", "\t", "\f", "\n", "\r"}

\* the declarations whose functions can be called: generation succeeds, the
\* blanks of cb_args are blanks of Python source, and the alias, written
\* between quotes, is a Python literal of the alias itself
RunDecls ==
    {h \in HookPool :
        /\ list_code(h).ok /\ fire_code(h).ok
        /\ \A k \in 1..Len(h.cb_args) :
              IsSpace(h.cb_args[k]) => h.cb_args[k] \in SourceBlank
        /\ h.legacy_hook # None =>
              \A k \in 1..Len(h.legacy_hook[1]) :
                  h.legacy_hook[1][k] \notin {"\\", "\"", "\n", "\r"}}

arity(h) == Len(arg_names(h).val)

Range(f) == {f[k] : k \in DOMAIN f}

\* list.remove(x): removes the first item equal to x, ValueError when no
\* item is equal to x
list_remove(l, x) ==
    IF x \in Range(l)
    THEN LET k == CHOOSE k \in 1..Len(l) :
                      l[k] = x /\ \A j \in 1..(k - 1) : l[j] # x
         IN  Ok(SubSeq(l, 1, k - 1) \o SubSeq(l, k + 1, Len(l)))
    ELSE Raise("ValueError")

\* what a callback does to the module-level list while it runs: nothing,
\* {full_name}.append(c) or {full_name}.remove(c) for a c in the list
Effects(l) ==
    {<<"none">>}
        \cup {<<"append", c>> : c \in IF Len(l) < MaxReg THEN Callbacks ELSE {}}
        \cup {<<"remove", c>> : c \in Range(l)}

list_effect(l, e) ==
    IF e[1] = "append" THEN Append(l, e[2])
    ELSE IF e[1] = "remove" THEN list_remove(l, e[2]).val
    ELSE l

InitDispatch ==
    /\ decl \in RunDecls
    /\ reg \in SeqsUpTo(Callbacks, MaxReg)
    /\ dpc = "idle" /\ it = 0 /\ cur = None
    /\ args = <<>> /\ args0 = <<>> /\ reg0 = reg /\ exc = None
    /\ calls = <<>> /\ legacy = <<>> /\ outcome = <<>> /\ ncalls = 0
    /\ GenIdle

\* a caller calls run_{full_name}(*vals): lines 77 and 97
Call ==
    /\ dpc \in {"idle", "returned", "raised"}
    /\ ncalls < MaxCalls
    /\ \E vals \in [1..arity(decl) -> Values] :
          /\ args' = vals
          /\ args0' = vals
    /\ ncalls' = ncalls + 1
    /\ reg0' = reg
    /\ it' = 0 /\ cur' = None /\ exc' = None
    /\ calls' = <<>> /\ legacy' = <<>> /\ outcome' = <<>>
    /\ dpc' = "for"
    /\ UNCHANGED <<decl, reg, gvars>>

\* "for hook in {full_name}:" takes the next item of the list iterator
ForNext(k) ==
    /\ kind(decl) = k
    /\ dpc = "for"
    /\ it < Len(reg)
    /\ cur' = Some(reg[it + 1])
    /\ it' = it + 1
    /\ dpc' = "try"
    /\ UNCHANGED <<decl, reg, args, args0, reg0, exc, calls, legacy, outcome, ncalls, gvars>>

\* the list iterator is exhausted: the statement after the loop, if any
ForEnd(k) ==
    /\ kind(decl) = k
    /\ dpc = "for"
    /\ it >= Len(reg)
    /\ dpc' = IF truthy(decl.legacy_hook) THEN "legacy"
              ELSE IF k = "filter" THEN "return" ELSE "end"
    /\ UNCHANGED <<decl, reg, it, cur, args, args0, reg0, exc, calls, legacy, outcome, ncalls, gvars>>

\* the callback raised e: control enters the except clause
Raised(e, eff) ==
    /\ calls' = Append(calls, [cb |-> cur[1], args |-> args, effect |-> eff,
                               result |-> <<"raise", e>>])
    /\ exc' = Some(e)
    /\ dpc' = "except"

\* line 80: hook(args), the value returned is dropped
HookInvoke ==
    /\ kind(decl) = "hook"
    /\ dpc = "try"
    /\ \E eff \in Effects(reg) :
          /\ reg' = list_effect(reg, eff)
          /\ \/ \E r \in Values :
                   /\ calls' = Append(calls, [cb |-> cur[1], args |-> args,
                                              effect |-> eff,
                                              result |-> <<"return", r>>])
                   /\ dpc' = "for"
                   /\ UNCHANGED exc
             \/ \E e \in Errors : Raised(e, eff)
    /\ UNCHANGED <<decl, it, cur, args, args0, reg0, legacy, outcome, ncalls, gvars>>

\* line 100: {arg_names[0]} = filter(args)
FilterInvoke ==
    /\ kind(decl) = "filter"
    /\ dpc = "try"
    /\ \E eff \in Effects(reg) :
          /\ reg' = list_effect(reg, eff)
          /\ \/ \E r \in Values :
                   /\ calls' = Append(calls, [cb |-> cur[1], args |-> args,
                                              effect |-> eff,
                                              result |-> <<"return", r>>])
                   /\ args' = [args EXCEPT ![1] = r]
                   /\ dpc' = "for"
                   /\ UNCHANGED exc
             \/ \E e \in Errors : Raised(e, eff) /\ UNCHANGED args
    /\ UNCHANGED <<decl, it, cur, args0, reg0, legacy, outcome, ncalls, gvars>>

\* lines 83 and 103: {full_name}.remove(hook); when the callback is no
\* longer in the list the ValueError of remove leaves the function
Remove(k) ==
    /\ kind(decl) = k
    /\ dpc = "except"
    /\ LET r == list_remove(reg, cur[1])
       IN  IF r.ok
           THEN /\ reg' = r.val
                /\ dpc' = "raise"
                /\ UNCHANGED outcome
           ELSE /\ outcome' = <<"raise", r.err>>
                /\ dpc' = "raised"
                /\ UNCHANGED reg
    /\ UNCHANGED <<decl, it, cur, args, args0, reg0, exc, calls, legacy, ncalls, gvars>>

\* lines 84 and 104: raise, the exception being handled leaves the function
Reraise(k) ==
    /\ kind(decl) = k
    /\ dpc = "raise"
    /\ outcome' = <<"raise", exc[1]>>
    /\ dpc' = "raised"
    /\ UNCHANGED <<decl, reg, it, cur, args, args0, reg0, exc, calls, legacy, ncalls, gvars>>

\* line 90: runHook("{legacy_hook}", args)
HookLegacy ==
    /\ kind(decl) = "hook"
    /\ dpc = "legacy"
    /\ legacy' = Append(legacy, [fn |-> "runHook",
                                 args |-> <<decl.legacy_hook[1]>> \o args])
    /\ dpc' = "end"
    /\ UNCHANGED <<decl, reg, it, cur, args, args0, reg0, exc, calls, outcome, ncalls, gvars>>

\* line 110: runFilter("{legacy_hook}", args), an expression statement
FilterLegacy ==
    /\ kind(decl) = "filter"
    /\ dpc = "legacy"
    /\ \E r \in Values :
          legacy' = Append(legacy, [fn |-> "runFilter",
                                    args |-> <<decl.legacy_hook[1]>> \o args,
                                    ret |-> r])
    /\ dpc' = "return"
    /\ UNCHANGED <<decl, reg, it, cur, args, args0, reg0, exc, calls, outcome, ncalls, gvars>>

\* the end of the body of a hook's function: None is returned
HookEnd ==
    /\ kind(decl) = "hook"
    /\ dpc = "end"
    /\ outcome' = <<"return", None>>
    /\ dpc' = "returned"
    /\ UNCHANGED <<decl, reg, it, cur, args, args0, reg0, exc, calls, legacy, ncalls, gvars>>

\* line 114: return {arg_names[0]}
FilterReturn ==
    /\ kind(decl) = "filter"
    /\ dpc = "return"
    /\ outcome' = <<"return", args[1]>>
    /\ dpc' = "returned"
    /\ UNCHANGED <<decl, reg, it, cur, args, args0, reg0, exc, calls, legacy, ncalls, gvars>>

HookFor == ForNext("hook")
HookForEnd == ForEnd("hook")
HookRemove == Remove("hook")
HookReraise == Reraise("hook")
FilterFor == ForNext("filter")
FilterForEnd == ForEnd("filter")
FilterRemove == Remove("filter")
FilterReraise == Reraise("filter")

NextDispatch ==
    \/ Call
    \/ HookFor
    \/ HookInvoke
    \/ HookRemove
    \/ HookReraise
    \/ HookForEnd
    \/ HookLegacy
    \/ HookEnd
    \/ FilterFor
    \/ FilterInvoke
    \/ FilterRemove
    \/ FilterReraise
    \/ FilterForEnd
    \/ FilterLegacy
    \/ FilterReturn

SpecDispatch == InitDispatch /\ [][NextDispatch]_vars

\* ------------------------------------------------------------------------
\* Properties of the generated dispatch functions (SpecDispatch)

\* the value of the first parameter after the callbacks logged so far
Threaded ==
    IF calls = <<>> THEN args0[1] ELSE calls[Len(calls)].result[2]

\* no callback invoked so far in this call touched the registration list
Untouched == \A k \in 1..Len(calls) : calls[k].effect = <<"none">>

\* the list l after the callbacks logged in c made their changes to it
RECURSIVE AfterEffects(_, _)
AfterEffects(l, c) ==
    IF c = <<>> THEN l
    ELSE AfterEffects(list_effect(l, c[1].effect), Tail(c))

\* C1: when the exception of a failing callback reaches the caller of the
\* dispatch function, in a call in which no callback touched the list, that
\* callback occurs nowhere in the registration list.
C1_EvictedWhenErrorReachesCaller ==
    (dpc = "raised" /\ Untouched) => cur[1] \notin Range(reg)

\* C2: the first failing callback ends the call: it is the last callback
\* invoked, the legacy function is not called, and the exception that
\* leaves the dispatch function is the one that callback raised.
C2_FirstFailureTerminates ==
    /\ \A k \in 1..Len(calls) :
          calls[k].result[1] = "raise" =>
             /\ k = Len(calls)
             /\ legacy = <<>>
             /\ dpc \in {"except", "raise", "raised"}
             /\ dpc = "raised" => outcome = <<"raise", calls[k].result[2]>>
    /\ dpc = "raised" =>
          /\ calls # <<>>
          /\ calls[Len(calls)].result[1] = "raise"

\* C3: when a call returns (no callback failed), the callbacks invoked are
\* the items the registration list had when the call started, each once and
\* in list order, each with one positional argument per parameter, and the
\* dispatch function has made no change to the list (the list is the list
\* before the call with the changes the callbacks themselves made).
C3_AllInvokedInOrderListUnchanged ==
    (dpc = "returned" /\ \A k \in 1..Len(calls) : calls[k].result[1] = "return") =>
       /\ Len(calls) = Len(reg0)
       /\ \A k \in 1..Len(calls) :
             /\ calls[k].cb = reg0[k]
             /\ Len(calls[k].args) = Len(args0)
             /\ \A a \in 2..Len(args0) : calls[k].args[a] = args0[a]
             /\ kind(decl) = "hook" => calls[k].args = args0
       /\ reg = AfterEffects(reg0, calls)

\* C4: when a filter's call returns, callback k of the list received the
\* value returned by callback k-1 (the first one the value passed by the
\* caller) and the other arguments as passed, and the call returns the
\* value returned by the last callback of the list, or the value passed
\* when the list is empty.
C4_FilterThreading ==
    (kind(decl) = "filter" /\ dpc = "returned") =>
       /\ Len(calls) = Len(reg0)
       /\ \A k \in 1..Len(calls) :
             /\ calls[k].cb = reg0[k]
             /\ calls[k].args[1] = IF k = 1 THEN args0[1]
                                   ELSE calls[k - 1].result[2]
             /\ Tail(calls[k].args) = Tail(args0)
       /\ outcome = <<"return", IF reg0 = <<>> THEN args0[1]
                                ELSE calls[Len(calls)].result[2]>>

\* C5: a hook with a legacy alias calls runHook only once the loop over the
\* list has ended with no failure and every callback registered when the
\* call started has been invoked, and when its call returns it has called
\* runHook exactly once, with the alias followed by the values the caller
\* passed; a hook with no legacy alias never calls it.  (An alias is a
\* non-empty name: line 86 tests the truth value of legacy_hook.)
C5_HookLegacyOnce ==
    kind(decl) = "hook" =>
       /\ Len(legacy) <= 1
       /\ legacy # <<>> =>
             /\ it >= Len(reg)
             /\ \A k \in 1..Len(calls) : calls[k].result[1] = "return"
             /\ Len(calls) = Len(reg0)
             /\ \A k \in 1..Len(calls) : calls[k].cb = reg0[k]
       /\ (truthy(decl.legacy_hook) /\ dpc = "returned") =>
             legacy = <<[fn |-> "runHook",
                         args |-> <<decl.legacy_hook[1]>> \o args0]>>
       /\ decl.legacy_hook = None => legacy = <<>>

\* C10: when the call of a filter with a legacy alias returns, runFilter has
\* been called exactly once, after the loop, with the alias, the first
\* argument as threaded through all the callbacks registered when the call
\* started and the other arguments, and the call returns the first argument
\* as the last registered callback left it, whatever runFilter returned.
C10_FilterLegacyDiscarded ==
    (kind(decl) = "filter" /\ truthy(decl.legacy_hook) /\ dpc = "returned") =>
       /\ Len(legacy) = 1
       /\ legacy[1].fn = "runFilter"
       /\ Len(calls) = Len(reg0)
       /\ \A k \in 1..Len(calls) :
             /\ calls[k].cb = reg0[k]
             /\ calls[k].args[1] = IF k = 1 THEN args0[1]
                                   ELSE calls[k - 1].result[2]
       /\ legacy[1].args = <<decl.legacy_hook[1], Threaded>> \o Tail(args0)
       /\ outcome = <<"return", Threaded>>

\* ------------------------------------------------------------------------
\* Properties of the script (SpecGenerate)

UniqueNames(l) == \A i, j \in 1..Len(l) : l[i].name = l[j].name => i = j

\* the declarations of l in ascending order of name (names unique)
Ascending(l) ==
    CHOOSE s \in [1..Len(l) -> Range(l)] :
        \A i, j \in 1..Len(l) : i < j => StrLess(s[i].name, s[j].name)

\* the list declarations of l in order, a separator, the functions in order
BlobOf(l) ==
    join(<<>>, [k \in 1..Len(l) |-> list_code(l[k]).val]) \o <<"\n\n">>
        \o join(<<>>, [k \in 1..Len(l) |-> fire_code(l[k]).val])

\* the number of ":" in a segment
Colons(seg) == Cardinality({k \in 1..Len(seg) : seg[k] = ":"})

\* a non-empty segment of cb_args that is not one name and one type
BadSegment(h) ==
    \E seg \in Range(split(h.cb_args, ",")) : seg # <<>> /\ Colons(seg) # 1

\* a filter with no argument
NoArgFilter(h) ==
    /\ h.return_type # None
    /\ \A seg \in Range(split(h.cb_args, ",")) : seg = <<>>

Generated == gpc \in {"sub", "write", "print", "done"}

\* C6: for declarations with unique names the generated blob depends only
\* on the set of declarations, not on their order in the list: it is the
\* list declarations in ascending order of name, then the separator, then
\* the dispatch functions in the same ascending order.
C6_BlobIndependentOfOrder ==
    (Generated /\ UniqueNames(declared)) => code = BlobOf(Ascending(declared))

\* a finished run on three declarations that were not listed in order
C6_Witness ==
    /\ gpc = "done"
    /\ Len(declared) = 3
    /\ UniqueNames(declared)
    /\ StrLess(declared[3].name, declared[2].name)

\* C7: a run of the script on the hooks.py that an earlier run left, with
\* the same declarations, leaves hooks.py as that earlier run left it.
C7_SecondRunChangesNothing ==
    (gpc \in {"done", "aborted"} /\ runs >= 2) => file = history[2]

\* C8: in a hooks.py that holds the marker twice or more, the second one
\* ending its line, and for a blob without a backslash, only the region
\* from the first marker through the next one is replaced, by the marker, a
\* blank line, the blob and the marker; the text before and after that
\* region, later markers included, is as it was.
C8_OnlyFirstRegionReplaced ==
    LET f == history[1]
        M == {k \in 1..Len(f) : f[k] = Marker}
        i == CHOOSE k \in M : \A m \in M : k <= m
        j == CHOOSE k \in M \ {i} : \A m \in M \ {i} : k <= m
    IN  (/\ gpc = "done" /\ runs = 1
         /\ Cardinality(M) >= 2
         /\ \A k \in 1..Len(f) : f[k] # "\r"
         /\ \A k \in 1..Len(code) : code[k] # "\\"
         /\ j < Len(f) /\ f[j + 1] = "\n")
        => file = SubSeq(f, 1, i - 1)
                     \o <<Marker, "\n", "\n">> \o code \o <<Marker>>
                     \o SubSeq(f, j + 1, Len(f))

\* C9: when a declaration has a segment that is not one name and one type,
\* or is a filter with no argument, the script ends with an exception
\* before it opens hooks.py: hooks.py stays as it was when the run started
\* and "Updated hooks.py" is not printed.
C9_GenerationErrorLeavesFile ==
    (\E k \in 1..Len(declared) : BadSegment(declared[k]) \/ NoArgFilter(declared[k])) =>
       /\ ~Generated
       /\ file = history[Len(history)]
       /\ printed = 0
       /\ gpc = "aborted" => gerr \in {Some("ValueError"), Some("IndexError")}
       /\ \A k \in 1..Len(history) : history[k] = history[1]

\* a run that ended with IndexError after the list declarations and some
\* dispatch function had been generated
C9_Witness ==
    /\ gpc = "aborted"
    /\ gerr = Some("IndexError")
    /\ gi = 2
    /\ \E k \in 1..Len(file) : file[k] = Marker

=============================================================================
